---- MODULE Spec2Model ----
(***************************************************************************)
(* Authentication core of the blogging backend (src/router/auth.py,        *)
(* src/router/user.py, src/model.py): the users table, the password        *)
(* hasher, the JWT codec, registration, login, refresh and the             *)
(* get_current_user dependency; and the content routers built on it        *)
(* (src/router/post.py, comment.py, like.py, category.py) with their       *)
(* tables and the ORM's delete cascades.                                   *)
(*                                                                         *)
(* Time is counted in whole epoch seconds, which is all the JWT library    *)
(* sees of the clock, both when it writes the exp claim and when it        *)
(* compares it.                                                            *)
(***************************************************************************)
EXTENDS Integers, Sequences, FiniteSets, TLC

----------------------------------------------------------------------------
(* Bounds of the model. *)

\* the clock stops advancing at MaxTicks seconds
MaxTicks == 3
\* access-token lifetime in seconds (ACCESS_TOKEN_EXPIRE_MINUTES, scaled)
AccessTtl == 1
\* refresh-token lifetime in seconds (REFRESH_TOKEN_EXPIRE_DAYS, scaled)
RefreshTtl == 2
\* largest primary key a table hands out
MaxId == 2

Usernames == {"alice", "bob"}
Passwords == {"pw1", "pw2"}
Salts == {"s1", "s2"}
\* scope lists a login form asks for
RequestedScopes == {<<"user">>, <<"user", "admin">>}
\* scope lists an endpoint declares
SecurityScopes == {<<>>, <<"user", "admin">>}
Workers == {"w1", "w2"}
\* role_id values a registration request carries (UserCreate.role_id, default 2)
RoleIds == {1, 2}
Titles == {"t1", "t2"}
CategoryNames == {"general", "news"}
Texts == {"c1", "c2"}

----------------------------------------------------------------------------
(* Configuration and enumerations. *)

SECRET_KEY == "server-secret"
OtherKey == "other-secret"
RoleEnum == {"USER", "ADMIN"}

\* request.client.host of the clients
ClientIps == {"ip1", "ip2"}

\* values of settings.ENVIRONMENT: the default and a deployment
Environments == {"development", "production"}

\* settings.RATE_LIMIT (100 in config.py), scaled down
RATE_LIMIT == 2

\* the length of the rate limiter's window in seconds (60 in main.py), scaled down
WindowSeconds == 2

\* the most requests one client gets through
MaxRequests == 4

----------------------------------------------------------------------------
(* Password hasher: bcrypt_context.hash / bcrypt_context.verify.  A hash    *)
(* carries its salt; verify recomputes the digest with the stored salt.     *)

bcrypt_digest(salt, password) == <<salt, password>>

bcrypt_hash(password, salt) ==
    [salt |-> salt, digest |-> bcrypt_digest(salt, password)]

bcrypt_verify(password, hashed) ==
    hashed.digest = bcrypt_digest(hashed.salt, password)

----------------------------------------------------------------------------
(* Token codec: jwt.encode / jwt.decode with HS256.  A payload is a dict;   *)
(* keys records which optional keys ("scopes", "refresh") it holds.         *)

NoClaims ==
    [sub |-> "", id |-> 0, role |-> "", keys |-> {}, scopes |-> <<>>,
     refresh |-> FALSE, exp |-> 0]

HS256(key, msg) == [key |-> key, msg |-> msg]

NoToken == [kind |-> "none", claims |-> NoClaims, sig |-> HS256("", NoClaims)]
Garbage == [kind |-> "garbage", claims |-> NoClaims, sig |-> HS256("", NoClaims)]

jwt_encode(claims, key) ==
    [kind |-> "jwt", claims |-> claims, sig |-> HS256(key, claims)]

\* jose's _validate_exp with no leeway: expired when exp < now
exp_expired(exp, t) == exp < t

jwt_decode(token, key, t) ==
    IF token.kind # "jwt"
    THEN [ok |-> FALSE, err |-> "Malformed", claims |-> NoClaims]
    ELSE IF token.sig # HS256(key, token.claims)
    THEN [ok |-> FALSE, err |-> "InvalidSignature", claims |-> NoClaims]
    ELSE IF exp_expired(token.claims.exp, t)
    THEN [ok |-> FALSE, err |-> "Expired", claims |-> NoClaims]
    ELSE [ok |-> TRUE, err |-> "", claims |-> token.claims]

\* payload.get("scopes", [])
payload_scopes(claims) == IF "scopes" \in claims.keys THEN claims.scopes ELSE <<>>

\* payload.get("refresh")
payload_refresh(claims) == "refresh" \in claims.keys /\ claims.refresh

create_access_token(data, expires_delta, t) ==
    jwt_encode([data EXCEPT !.exp = t + expires_delta], SECRET_KEY)

\* (variant: only an ADMIN is given the scope "admin")
access_data_scopes_by_role(username, user_id, role, scopes) ==
    [sub |-> username, id |-> user_id, role |-> role, keys |-> {"scopes"},
     scopes |-> IF role = "ADMIN" THEN scopes
                ELSE SelectSeq(scopes, LAMBDA x : x # "admin"),
     refresh |-> FALSE, exp |-> 0]

access_data(username, user_id, role, scopes) ==
    [sub |-> username, id |-> user_id, role |-> role, keys |-> {"scopes"},
     scopes |-> scopes, refresh |-> FALSE, exp |-> 0]

\* (variant: the refreshed access token is given every scope)
refreshed_access_data_all_scopes(username, user_id, role) ==
    [sub |-> username, id |-> user_id, role |-> role, keys |-> {"scopes"},
     scopes |-> <<"user", "admin">>, refresh |-> FALSE, exp |-> 0]

refreshed_access_data(username, user_id, role) ==
    [sub |-> username, id |-> user_id, role |-> role, keys |-> {},
     scopes |-> <<>>, refresh |-> FALSE, exp |-> 0]

refresh_data(username, user_id, role) ==
    [sub |-> username, id |-> user_id, role |-> role, keys |-> {"refresh"},
     scopes |-> <<>>, refresh |-> TRUE, exp |-> 0]

----------------------------------------------------------------------------
(* The users table. db is a function from the ids in use to rows. *)

by_username(db, username) == {i \in DOMAIN db : db[i].username = username}

by_id(db, user_id) == {i \in DOMAIN db : i = user_id}

SetMax(S) == CHOOSE m \in S : \A x \in S : x <= m

\* INTEGER PRIMARY KEY without AUTOINCREMENT: one more than the largest id in use
next_id(db) == IF DOMAIN db = {} THEN 1 ELSE SetMax(DOMAIN db) + 1

insert_user(db, row) ==
    [i \in DOMAIN db \cup {next_id(db)} |-> IF i \in DOMAIN db THEN db[i] ELSE row]

delete_user(db, user_id) == [i \in DOMAIN db \ {user_id} |-> db[i]]

----------------------------------------------------------------------------
(* The content tables and the ORM's delete cascades (relationship(...,      *)
(* cascade="all, delete-orphan") in src/model.py).  content is the record   *)
(* of the five tables; db.delete(row) deletes the row's children with it.   *)

without(table, ids) == [i \in DOMAIN table \ ids |-> table[i]]

\* the rows of table whose column holds one of ids
referencing(table, column, ids) == {i \in DOMAIN table : table[i][column] \in ids}

\* (variant: the posts go without their children)
delete_posts_only(content, ids) == [content EXCEPT !.posts = without(@, ids)]

\* Post.comments, Post.likes, Post.views
delete_posts(content, ids) ==
    [content EXCEPT
        !.posts = without(@, ids),
        !.comments = without(@, referencing(@, "post_id", ids)),
        !.likes = without(@, referencing(@, "post_id", ids)),
        !.views = without(@, referencing(@, "post_id", ids))]

\* Category.posts
delete_category_row(content, category_id) ==
    delete_posts([content EXCEPT !.categories = without(@, {category_id})],
                 referencing(content.posts, "category_id", {category_id}))

\* User.posts, User.comments, User.likes, User.views
delete_user_content(content, user_id) ==
    delete_posts(
        [content EXCEPT
            !.comments = without(@, referencing(@, "user_id", {user_id})),
            !.likes = without(@, referencing(@, "user_id", {user_id})),
            !.views = without(@, referencing(@, "user_id", {user_id}))],
        referencing(content.posts, "user_id", {user_id}))

\* a new row under the table's next primary key
insert_row(table, row) ==
    [i \in DOMAIN table \cup {next_id(table)} |-> IF i \in DOMAIN table THEN table[i] ELSE row]

----------------------------------------------------------------------------
(* Handlers of src/router/auth.py as functions of the request, the users    *)
(* table and the clock.  A result is the HTTP response that reaches the     *)
(* client.                                                                  *)

Range(seq) == {seq[i] : i \in DOMAIN seq}

\* all([username, user_id, role])
all_present(claims) == claims.sub # "" /\ claims.id # 0 /\ claims.role # ""


\* (variant: the password is never verified)
authenticate_user_no_verify(username, password, db) ==
    LET found == by_username(db, username)
    IN  IF found = {} THEN 0 ELSE CHOOSE i \in found : TRUE

\* the user's id, or 0 for None
authenticate_user(username, password, db) ==
    LET found == by_username(db, username)
    IN  IF found = {} THEN 0
        ELSE LET user_id == CHOOSE i \in found : TRUE
             IN  IF bcrypt_verify(password, db[user_id].password)
                 THEN user_id ELSE 0


\* (variant: the existence check is missing)
register_check_missing(username, db) == [status |-> 0, detail |-> ""]

register_check(username, db) ==
    IF by_username(db, username) # {}
    THEN [status |-> 400, detail |-> "Username already taken"]
    ELSE [status |-> 0, detail |-> ""]

\* (variant: the role comes from the request's role_id, 1 for ADMIN)
new_user_role_from_request(username, hashed_password, role_id) ==
    [username |-> username, password |-> hashed_password,
     role |-> IF role_id = 1 THEN "ADMIN" ELSE "USER"]

\* User(username=..., password=hashed_password, role=RoleEnum.USER): the
\* request's role_id is not read
new_user(username, hashed_password, role_id) ==
    [username |-> username, password |-> hashed_password, role |-> "USER"]

\* db.add(user); db.commit(): the unique index on username decides
register_commit(username, db) ==
    IF by_username(db, username) # {}
    THEN [status |-> 500, detail |-> "Failed to create user"]
    ELSE [status |-> 201, detail |-> ""]


\* (variant: the failure names its cause)
login_specific_messages(username, password, scopes, db, t) ==
    LET user_id == authenticate_user(username, password, db)
    IN  IF by_username(db, username) = {}
        THEN [status |-> 404, detail |-> "User not found",
              access |-> NoToken, refresh |-> NoToken]
        ELSE IF user_id = 0
        THEN [status |-> 401, detail |-> "Incorrect password",
              access |-> NoToken, refresh |-> NoToken]
        ELSE [status |-> 200, detail |-> "",
              access |-> create_access_token(
                  access_data(db[user_id].username, user_id, db[user_id].role, scopes),
                  AccessTtl, t),
              refresh |-> create_access_token(
                  refresh_data(db[user_id].username, user_id, db[user_id].role),
                  RefreshTtl, t)]

login(username, password, scopes, db, t) ==
    LET user_id == authenticate_user(username, password, db)
    IN  IF user_id = 0
        THEN [status |-> 401, detail |-> "Invalid credentials",
              access |-> NoToken, refresh |-> NoToken]
        ELSE [status |-> 200, detail |-> "",
              access |-> create_access_token(
                  access_data(db[user_id].username, user_id, db[user_id].role, scopes),
                  AccessTtl, t),
              refresh |-> create_access_token(
                  refresh_data(db[user_id].username, user_id, db[user_id].role),
                  RefreshTtl, t)]

\* (variant: the marker test is inverted, "if payload.get("refresh")")
refresh_token_marker_inverted(token, db, t) ==
    LET payload == jwt_decode(token, SECRET_KEY, t)
        claims == payload.claims
        failed(status, detail) ==
            [status |-> status, detail |-> detail,
             access |-> NoToken, refresh |-> NoToken]
    IN  IF token.kind = "none" THEN failed(401, "Not authenticated")
        ELSE IF ~payload.ok THEN failed(401, "Invalid refresh token")
        ELSE IF payload_refresh(claims) THEN failed(500, "Token refresh failed")
        ELSE IF ~all_present(claims) THEN failed(500, "Token refresh failed")
        ELSE IF by_id(db, claims.id) = {} THEN failed(500, "Token refresh failed")
        ELSE [status |-> 200, detail |-> "",
              access |-> create_access_token(
                  refreshed_access_data(claims.sub, claims.id, claims.role),
                  AccessTtl, t),
              refresh |-> create_access_token(
                  refresh_data(claims.sub, claims.id, claims.role),
                  RefreshTtl, t)]

refresh_token(token, db, t) ==
    LET payload == jwt_decode(token, SECRET_KEY, t)
        claims == payload.claims
        failed(status, detail) ==
            [status |-> status, detail |-> detail,
             access |-> NoToken, refresh |-> NoToken]
    IN  IF token.kind = "none" THEN failed(401, "Not authenticated")
        ELSE IF ~payload.ok THEN failed(401, "Invalid refresh token")
        \* the HTTPExceptions below are raised inside the try block, which has
        \* no "except HTTPException: raise": "except Exception" turns them into 500
        ELSE IF ~payload_refresh(claims) THEN failed(500, "Token refresh failed")
        ELSE IF ~all_present(claims) THEN failed(500, "Token refresh failed")
        ELSE IF by_id(db, claims.id) = {} THEN failed(500, "Token refresh failed")
        ELSE [status |-> 200, detail |-> "",
              access |-> create_access_token(
                  refreshed_access_data(claims.sub, claims.id, claims.role),
                  AccessTtl, t),
              refresh |-> create_access_token(
                  refresh_data(claims.sub, claims.id, claims.role),
                  RefreshTtl, t)]


\* (variant: one matching scope is enough)
scopes_granted_any(security_scopes, token_scopes) ==
    \E i \in DOMAIN security_scopes : security_scopes[i] \in Range(token_scopes)

\* every required scope is in the token's scope list
scopes_granted(security_scopes, token_scopes) ==
    \A i \in DOMAIN security_scopes : security_scopes[i] \in Range(token_scopes)

\* get_current_user with the scope check ahead of the identity lookup
get_current_user_scopes_first(security_scopes, token, db, t) ==
    LET payload == jwt_decode(token, SECRET_KEY, t)
        claims == payload.claims
        failed(status, detail) == [status |-> status, detail |-> detail, user |-> 0]
    IN  IF token.kind = "none" THEN failed(401, "Not authenticated")
        ELSE IF ~payload.ok THEN failed(401, "Could not validate credentials")
        ELSE IF ~all_present(claims) THEN failed(401, "Could not validate credentials")
        ELSE IF ~scopes_granted(security_scopes, payload_scopes(claims))
        THEN failed(403, "Not enough permissions")
        ELSE IF by_id(db, claims.id) = {} THEN failed(401, "Could not validate credentials")
        ELSE [status |-> 200, detail |-> "", user |-> claims.id]

get_current_user(security_scopes, token, db, t) ==
    LET payload == jwt_decode(token, SECRET_KEY, t)
        claims == payload.claims
        failed(status, detail) == [status |-> status, detail |-> detail, user |-> 0]
    IN  IF token.kind = "none" THEN failed(401, "Not authenticated")
        ELSE IF ~payload.ok THEN failed(401, "Could not validate credentials")
        ELSE IF ~all_present(claims) THEN failed(401, "Could not validate credentials")
        ELSE IF by_id(db, claims.id) = {} THEN failed(401, "Could not validate credentials")
        ELSE IF ~scopes_granted(security_scopes, payload_scopes(claims))
        THEN failed(403, "Not enough permissions")
        ELSE [status |-> 200, detail |-> "", user |-> claims.id]

\* The same three handlers when the database cannot be reached: db.query
\* raises.  fault tells whether the request got as far as the query.

\* authenticate_user: "except Exception: return None"
authenticate_user_store_down(username, password) == 0

login_store_down(username, password, scopes, t) ==
    LET user_id == authenticate_user_store_down(username, password)
    IN  IF user_id = 0
        THEN [status |-> 401, detail |-> "Invalid credentials", fault |-> TRUE]
        ELSE [status |-> 200, detail |-> "", fault |-> TRUE]

\* the query's exception reaches "except Exception"
refresh_token_store_down(token, t) ==
    LET payload == jwt_decode(token, SECRET_KEY, t)
        claims == payload.claims
        failed(status, detail, fault) ==
            [status |-> status, detail |-> detail, fault |-> fault]
    IN  IF token.kind = "none" THEN failed(401, "Not authenticated", FALSE)
        ELSE IF ~payload.ok THEN failed(401, "Invalid refresh token", FALSE)
        ELSE IF ~payload_refresh(claims) THEN failed(500, "Token refresh failed", FALSE)
        ELSE IF ~all_present(claims) THEN failed(500, "Token refresh failed", FALSE)
        ELSE failed(500, "Token refresh failed", TRUE)

\* the query's exception is neither JWTError nor ValidationError and leaves
\* the dependency uncaught
get_current_user_store_down(security_scopes, token, t) ==
    LET payload == jwt_decode(token, SECRET_KEY, t)
        claims == payload.claims
        failed(status, detail, fault) ==
            [status |-> status, detail |-> detail, fault |-> fault]
    IN  IF token.kind = "none" THEN failed(401, "Not authenticated", FALSE)
        ELSE IF ~payload.ok THEN failed(401, "Could not validate credentials", FALSE)
        ELSE IF ~all_present(claims)
        THEN failed(401, "Could not validate credentials", FALSE)
        ELSE failed(500, "Internal Server Error", TRUE)

\* src/router/user.py: the handler subscripts the ORM object the dependency
\* returned (user["id"]); User defines no __getitem__, so a TypeError leaves
\* the handler before any query and the server answers 500
delete_current_user(token, db, t) ==
    LET auth == get_current_user(<<>>, token, db, t)
    IN  IF auth.status # 200
        THEN [status |-> auth.status, detail |-> auth.detail]
        ELSE [status |-> 500, detail |-> "Internal Server Error"]

----------------------------------------------------------------------------
(* Handlers of the content routers.  Each takes the request, the users      *)
(* table, the content tables and the clock, and returns the response with   *)
(* the content tables as the request leaves them.                           *)

\* what the user dependency hands to a handler: the row get_current_user
\* returned, an instance of model.User ("return user"), not a dict
orm_user(db, user_id) == [kind |-> "User", id |-> user_id, role |-> db[user_id].role]

\* post.user_id != user["id"] and user.get("role") != "ADMIN"
\* user["id"] is evaluated first; User defines no __getitem__
owner_or_admin(owner_id, user) ==
    IF user.kind # "dict" THEN "TypeError"
    ELSE IF owner_id # user.id /\ user.role # "ADMIN" THEN "Forbidden"
    ELSE "pass"

\* comment.user_id != user["id"]
owner_only(owner_id, user) ==
    IF user.kind # "dict" THEN "TypeError"
    ELSE IF owner_id # user.id THEN "Forbidden"
    ELSE "pass"

\* (variant: the guard lets every caller through)
admin_only_anyone(user) == "pass"

\* not user or user.get("role") != "ADMIN"; User defines no get
admin_only(user) ==
    IF user.kind # "dict" THEN "AttributeError"
    ELSE IF user.role # "ADMIN" THEN "Forbidden"
    ELSE "pass"

\* (variant: the value get_current_user returned can be subscripted)
user_subscript_id_dict(user) == "pass"

\* user["id"] as a value
user_subscript_id(user) == IF user.kind # "dict" THEN "TypeError" ELSE "pass"

answer(status, detail, content) ==
    [status |-> status, detail |-> detail, content |-> content]

\* an exception no handler catches: the server answers 500
server_error(content) == answer(500, "Internal Server Error", content)

create_post(title, category_id, token, db, content, t) ==
    LET auth == get_current_user(<<>>, token, db, t)
    IN  IF auth.status # 200 THEN answer(auth.status, auth.detail, content)
        ELSE IF category_id \notin DOMAIN content.categories
        THEN answer(404, "Category not found", content)
        \* the TypeError is raised inside the try block, which catches
        \* IntegrityError only
        ELSE IF user_subscript_id(orm_user(db, auth.user)) # "pass"
        THEN server_error(content)
        ELSE IF referencing(content.posts, "title", {title}) # {}
        THEN answer(400, "Post with this title already exists", content)
        ELSE answer(201, "",
                    [content EXCEPT !.posts = insert_row(@,
                        [title |-> title, user_id |-> auth.user,
                         category_id |-> category_id])])

\* title "" and category_id 0 stand for fields the request leaves out
update_post(post_id, title, category_id, token, db, content, t) ==
    LET auth == get_current_user(<<>>, token, db, t)
        guard == owner_or_admin(content.posts[post_id].user_id, orm_user(db, auth.user))
        titled == IF title = "" THEN content.posts[post_id].title ELSE title
        filed == IF category_id = 0 THEN content.posts[post_id].category_id
                 ELSE category_id
    IN  IF auth.status # 200 THEN answer(auth.status, auth.detail, content)
        ELSE IF post_id \notin DOMAIN content.posts
        THEN answer(404, "Post not found", content)
        ELSE IF guard \in {"TypeError", "AttributeError"} THEN server_error(content)
        ELSE IF guard = "Forbidden" THEN answer(403, "Insufficient permissions", content)
        ELSE IF filed \notin DOMAIN content.categories
        THEN answer(404, "Category not found", content)
        ELSE IF referencing(content.posts, "title", {titled}) \ {post_id} # {}
        THEN answer(400, "Post with this title already exists", content)
        ELSE answer(200, "",
                    [content EXCEPT !.posts[post_id].title = titled,
                                    !.posts[post_id].category_id = filed])

\* (variant: the endpoint does not depend on the current user)
delete_post_without_user(post_id, token, db, content, t) ==
    IF post_id \notin DOMAIN content.posts
    THEN answer(404, "Post not found", content)
    ELSE answer(204, "", delete_posts(content, {post_id}))

delete_post(post_id, token, db, content, t) ==
    LET auth == get_current_user(<<>>, token, db, t)
        guard == owner_or_admin(content.posts[post_id].user_id, orm_user(db, auth.user))
    IN  IF auth.status # 200 THEN answer(auth.status, auth.detail, content)
        ELSE IF post_id \notin DOMAIN content.posts
        THEN answer(404, "Post not found", content)
        ELSE IF guard \in {"TypeError", "AttributeError"} THEN server_error(content)
        ELSE IF guard = "Forbidden" THEN answer(403, "Insufficient permissions", content)
        ELSE answer(204, "", delete_posts(content, {post_id}))

create_comment(text, post_id, token, db, content, t) ==
    LET auth == get_current_user(<<>>, token, db, t)
    IN  IF auth.status # 200 THEN answer(auth.status, auth.detail, content)
        ELSE IF post_id \notin DOMAIN content.posts
        THEN answer(404, "Post not found", content)
        ELSE IF user_subscript_id(orm_user(db, auth.user)) # "pass"
        THEN server_error(content)
        ELSE answer(201, "",
                    [content EXCEPT !.comments = insert_row(@,
                        [content |-> text, user_id |-> auth.user,
                         post_id |-> post_id])])

update_comment(comment_id, text, token, db, content, t) ==
    LET auth == get_current_user(<<>>, token, db, t)
        guard == owner_only(content.comments[comment_id].user_id, orm_user(db, auth.user))
    IN  IF auth.status # 200 THEN answer(auth.status, auth.detail, content)
        ELSE IF comment_id \notin DOMAIN content.comments
        THEN answer(404, "Comment not found", content)
        ELSE IF guard = "TypeError" THEN server_error(content)
        ELSE IF guard = "Forbidden"
        THEN answer(403, "You can only update your own comments", content)
        ELSE answer(200, "",
                    [content EXCEPT !.comments[comment_id].content =
                        IF text = "" THEN @ ELSE text])

delete_comment(comment_id, token, db, content, t) ==
    LET auth == get_current_user(<<>>, token, db, t)
        guard == owner_or_admin(content.comments[comment_id].user_id,
                                orm_user(db, auth.user))
    IN  IF auth.status # 200 THEN answer(auth.status, auth.detail, content)
        ELSE IF comment_id \notin DOMAIN content.comments
        THEN answer(404, "Comment not found", content)
        ELSE IF guard \in {"TypeError", "AttributeError"} THEN server_error(content)
        ELSE IF guard = "Forbidden" THEN answer(403, "Insufficient permissions", content)
        ELSE answer(204, "", [content EXCEPT !.comments = without(@, {comment_id})])

\* the likes of user_id on post_id
likes_of(content, post_id, user_id) ==
    {i \in DOMAIN content.likes :
        content.likes[i].post_id = post_id /\ content.likes[i].user_id = user_id}

create_like(post_id, token, db, content, t) ==
    LET auth == get_current_user(<<>>, token, db, t)
    IN  IF auth.status # 200 THEN answer(auth.status, auth.detail, content)
        ELSE IF post_id \notin DOMAIN content.posts
        THEN answer(404, "Post not found", content)
        ELSE IF user_subscript_id(orm_user(db, auth.user)) # "pass"
        THEN server_error(content)
        ELSE IF likes_of(content, post_id, auth.user) # {}
        THEN answer(400, "Post already liked", content)
        ELSE answer(201, "",
                    [content EXCEPT !.likes = insert_row(@,
                        [user_id |-> auth.user, post_id |-> post_id])])

\* the query that looks the like up is built from user["id"]
remove_like(post_id, token, db, content, t) ==
    LET auth == get_current_user(<<>>, token, db, t)
        mine == likes_of(content, post_id, auth.user)
    IN  IF auth.status # 200 THEN answer(auth.status, auth.detail, content)
        ELSE IF user_subscript_id(orm_user(db, auth.user)) # "pass"
        THEN server_error(content)
        ELSE IF mine = {} THEN answer(404, "Like not found", content)
        ELSE answer(204, "",
                    [content EXCEPT !.likes = without(@, {CHOOSE i \in mine : TRUE})])

create_category(name, token, db, content, t) ==
    LET auth == get_current_user(<<>>, token, db, t)
        guard == admin_only(orm_user(db, auth.user))
    IN  IF auth.status # 200 THEN answer(auth.status, auth.detail, content)
        ELSE IF guard = "AttributeError" THEN server_error(content)
        ELSE IF guard = "Forbidden" THEN answer(403, "Admin privileges required", content)
        ELSE IF referencing(content.categories, "name", {name}) # {}
        THEN answer(400, "Category already exists", content)
        ELSE answer(201, "",
                    [content EXCEPT !.categories = insert_row(@, [name |-> name])])

\* name "" stands for a request that leaves the name out
update_category(category_id, name, token, db, content, t) ==
    LET auth == get_current_user(<<>>, token, db, t)
        guard == admin_only(orm_user(db, auth.user))
    IN  IF auth.status # 200 THEN answer(auth.status, auth.detail, content)
        ELSE IF guard = "AttributeError" THEN server_error(content)
        ELSE IF guard = "Forbidden" THEN answer(403, "Admin privileges required", content)
        ELSE IF category_id \notin DOMAIN content.categories
        THEN answer(404, "Category not found", content)
        ELSE IF name = "" THEN answer(200, "", content)
        ELSE IF referencing(content.categories, "name", {name}) \ {category_id} # {}
        THEN answer(400, "Category name already exists", content)
        ELSE answer(200, "", [content EXCEPT !.categories[category_id].name = name])

delete_category(category_id, token, db, content, t) ==
    LET auth == get_current_user(<<>>, token, db, t)
        guard == admin_only(orm_user(db, auth.user))
    IN  IF auth.status # 200 THEN answer(auth.status, auth.detail, content)
        ELSE IF guard = "AttributeError" THEN server_error(content)
        ELSE IF guard = "Forbidden" THEN answer(403, "Admin privileges required", content)
        ELSE IF category_id \notin DOMAIN content.categories
        THEN answer(404, "Category not found", content)
        ELSE answer(204, "", delete_category_row(content, category_id))

\* PATCH /users/me: db.query(User).filter(User.id == user["id"])
update_current_user(password, salt, token, db, t) ==
    LET auth == get_current_user(<<>>, token, db, t)
    IN  IF auth.status # 200
        THEN [status |-> auth.status, detail |-> auth.detail, db |-> db]
        ELSE IF user_subscript_id(orm_user(db, auth.user)) # "pass"
        THEN [status |-> 500, detail |-> "Internal Server Error", db |-> db]
        ELSE [status |-> 200, detail |-> "",
              db |-> IF password = "" THEN db
                     ELSE [db EXCEPT ![auth.user].password = bcrypt_hash(password, salt)]]

----------------------------------------------------------------------------
(* State. *)

VARIABLES
    users,      \* the users table: id -> [username, password, role]
    now,        \* the server clock, in seconds
    bearer,     \* the token the client holds for its Authorization header
    revoked,    \* history: the identity bearer was issued to was deleted since
    reg,        \* per worker: the registration between its check and its commit
    resp,       \* the response the client is reading, with the request it answers
    categories, \* the categories table: id -> [name]
    posts,      \* the posts table: id -> [title, user_id, category_id]
    comments,   \* the comments table: id -> [content, user_id, post_id]
    likes,      \* the likes table: id -> [user_id, post_id]
    views,      \* the views table: id -> [user_id, post_id]
    ENVIRONMENT, \* settings.ENVIRONMENT, fixed when the server starts
    ip_requests, \* app.state.ip_requests: client ip -> times of its admitted requests
    admitted,    \* history: client ip -> times of the requests that were let through
    like_req    \* per worker: the create_like it is serving, between its queries

contentVars == <<categories, posts, comments, likes, views>>

\* the rate limiter's state and the create_like requests in progress
sideVars == <<ENVIRONMENT, ip_requests, admitted, like_req>>

vars == <<users, now, bearer, revoked, reg, resp, contentVars, sideVars>>

Idle == [username |-> "", password |-> "", role_id |-> 0]

\* a worker that is serving no create_like
NoLikeRequest ==
    [pc |-> "idle", post_id |-> 0, user |-> 0, status |-> 0, overlapped |-> FALSE]

\* the server as it starts with the default settings
StartUp ==
    /\ ENVIRONMENT = "development"
    /\ ip_requests = [ip \in {} |-> <<>>]
    /\ admitted = [ip \in ClientIps |-> <<>>]
    /\ like_req = [w \in Workers |-> NoLikeRequest]

Response(op, status, detail) ==
    [op |-> op, status |-> status, detail |-> detail,
     username |-> "", password |-> "", scopes |-> <<>>, token |-> NoToken,
     access |-> NoToken, refresh |-> NoToken, user |-> 0,
     target |-> 0, name |-> "", role_id |-> 0, fault |-> FALSE]

\* no response is waiting to be read
NoResponse == Response("none", 0, "")

\* the client sends its next request once it has read the last response
Quiet == resp = NoResponse

\* what the client can put in the Authorization header: nothing, junk, the token
\* it holds, or that token with its expiry pushed back or signed with a key of
\* the client's own
Altered(token) == [token EXCEPT !.claims.exp = @ + 1]
Resigned(token) == jwt_encode(token.claims, OtherKey)
Presentable ==
    {NoToken, Garbage} \cup
        IF bearer = NoToken THEN {} ELSE {bearer, Altered(bearer), Resigned(bearer)}

\* the client keeps the token it holds or takes one of the two just returned
ClientKeeps(r) ==
    /\ bearer' \in IF r.status = 200 THEN {bearer, r.access, r.refresh} ELSE {bearer}
    /\ revoked' = IF bearer' = bearer THEN revoked ELSE FALSE

Init ==
    /\ users = <<>>
    /\ now = 0
    /\ bearer = NoToken
    /\ revoked = FALSE
    /\ reg = [w \in Workers |-> Idle]
    /\ resp = NoResponse
    /\ categories = <<>>
    /\ posts = <<>>
    /\ comments = <<>>
    /\ likes = <<>>
    /\ views = <<>>
    /\ StartUp

\* the content tables as one value
Content ==
    [categories |-> categories, posts |-> posts, comments |-> comments,
     likes |-> likes, views |-> views]

\* the content tables after a request
Commit(content) ==
    /\ categories' = content.categories
    /\ posts' = content.posts
    /\ comments' = content.comments
    /\ likes' = content.likes
    /\ views' = content.views

\* a database file left by earlier runs and by the administration that works
\* on the store directly (startup only creates missing tables): two users with
\* roles r1 and r2, one category, one post by owner, and a comment, a like
\* and a view on it by the other user
Populated(r1, r2, owner) ==
    /\ users = [i \in {1, 2} |->
                  IF i = 1
                  THEN [username |-> "alice", password |-> bcrypt_hash("pw1", "s1"),
                        role |-> r1]
                  ELSE [username |-> "bob", password |-> bcrypt_hash("pw2", "s2"),
                        role |-> r2]]
    /\ categories = [i \in {1} |-> [name |-> "general"]]
    /\ posts = [i \in {1} |-> [title |-> "t1", user_id |-> owner, category_id |-> 1]]
    /\ comments = [i \in {1} |-> [content |-> "c1", user_id |-> 3 - owner, post_id |-> 1]]
    /\ likes = [i \in {1} |-> [user_id |-> 3 - owner, post_id |-> 1]]
    /\ views = [i \in {1} |-> [user_id |-> 3 - owner, post_id |-> 1]]

InitContent ==
    /\ now = 0
    /\ bearer = NoToken
    /\ revoked = FALSE
    /\ reg = [w \in Workers |-> Idle]
    /\ resp = NoResponse
    /\ StartUp
    /\ \E r1 \in RoleEnum, r2 \in RoleEnum, owner \in {1, 2} : Populated(r1, r2, owner)

----------------------------------------------------------------------------
(* Actions. *)

\* POST /auth/register up to the existence check (auth.py lines 74-82)
RegisterBegin(w, username, password, role_id) ==
    /\ Quiet
    /\ reg[w] = Idle
    /\ next_id(users) <= MaxId
    /\ LET r == register_check(username, users)
       IN  IF r.status = 400
           THEN /\ resp' = [Response("register_user", r.status, r.detail)
                               EXCEPT !.username = username, !.password = password,
                                      !.role_id = role_id]
                /\ reg' = reg
           ELSE /\ reg' = [reg EXCEPT ![w] = [username |-> username,
                                              password |-> password,
                                              role_id |-> role_id]]
                /\ resp' = resp
    /\ UNCHANGED <<users, now, bearer, revoked, contentVars, sideVars>>

\* POST /auth/register from the hash to the response (auth.py lines 84-103)
RegisterCommit(w, salt) ==
    /\ Quiet
    /\ reg[w] # Idle
    /\ next_id(users) <= MaxId
    /\ LET r == register_commit(reg[w].username, users)
           row == new_user(reg[w].username, bcrypt_hash(reg[w].password, salt),
                           reg[w].role_id)
       IN  /\ users' = IF r.status = 201 THEN insert_user(users, row) ELSE users
           /\ resp' = [Response("register_user", r.status, r.detail)
                          EXCEPT !.username = reg[w].username,
                                 !.password = reg[w].password,
                                 !.role_id = reg[w].role_id,
                                 !.user = IF r.status = 201 THEN next_id(users) ELSE 0]
    /\ reg' = [reg EXCEPT ![w] = Idle]
    /\ UNCHANGED <<now, bearer, revoked, contentVars, sideVars>>

\* POST /auth/register, the whole handler in one step: the handler is a
\* coroutine without an await, so within one server process nothing runs
\* between its existence check and its commit
RegisterUser(username, password, role_id, salt) ==
    /\ Quiet
    /\ next_id(users) <= MaxId
    /\ LET c == register_check(username, users)
           r == IF c.status = 400 THEN c ELSE register_commit(username, users)
           row == new_user(username, bcrypt_hash(password, salt), role_id)
       IN  /\ users' = IF r.status = 201 THEN insert_user(users, row) ELSE users
           /\ resp' = [Response("register_user", r.status, r.detail)
                          EXCEPT !.username = username, !.password = password,
                                 !.role_id = role_id,
                                 !.user = IF r.status = 201 THEN next_id(users) ELSE 0]
    /\ UNCHANGED <<now, bearer, revoked, reg, contentVars, sideVars>>

\* POST /auth/token
Login(username, password, scopes) ==
    LET r == login(username, password, scopes, users, now)
    IN  /\ Quiet
        /\ ClientKeeps(r)
        /\ resp' = [Response("login", r.status, r.detail)
                       EXCEPT !.username = username, !.password = password,
                              !.scopes = scopes,
                              !.access = r.access, !.refresh = r.refresh]
        /\ UNCHANGED <<users, now, reg, contentVars, sideVars>>

\* POST /auth/refresh
RefreshToken(token) ==
    LET r == refresh_token(token, users, now)
    IN  /\ Quiet
        /\ ClientKeeps(r)
        /\ resp' = [Response("refresh_token", r.status, r.detail)
                       EXCEPT !.token = token,
                              !.access = r.access, !.refresh = r.refresh]
        /\ UNCHANGED <<users, now, reg, contentVars, sideVars>>

\* the dependency of every protected endpoint
GetCurrentUser(security_scopes, token) ==
    LET r == get_current_user(security_scopes, token, users, now)
    IN  /\ Quiet
        /\ resp' = [Response("get_current_user", r.status, r.detail)
                       EXCEPT !.token = token, !.scopes = security_scopes,
                              !.user = r.user]
        /\ UNCHANGED <<users, now, bearer, revoked, reg, contentVars, sideVars>>

\* DELETE /users/me
DeleteCurrentUser(token) ==
    LET r == delete_current_user(token, users, now)
    IN  /\ Quiet
        /\ resp' = [Response("delete_current_user", r.status, r.detail)
                       EXCEPT !.token = token]
        /\ UNCHANGED <<users, now, bearer, revoked, reg, contentVars, sideVars>>

\* a row of the users table is deleted in the store itself (db.delete(db_user);
\* db.commit() on a session of its own), and the ORM deletes its children
StoreDeleteUser(user_id) ==
    /\ Quiet
    /\ user_id \in DOMAIN users
    /\ users' = delete_user(users, user_id)
    /\ Commit(delete_user_content(Content, user_id))
    /\ revoked' = (revoked \/ bearer.claims.id = user_id)
    /\ resp' = [Response("store_delete", 0, "") EXCEPT !.user = user_id]
    /\ UNCHANGED <<now, bearer, reg, sideVars>>

\* POST /auth/token while the database cannot be reached
LoginStoreDown(username, password, scopes) ==
    LET r == login_store_down(username, password, scopes, now)
    IN  /\ Quiet
        /\ resp' = [Response("login", r.status, r.detail)
                       EXCEPT !.username = username, !.password = password,
                              !.scopes = scopes, !.fault = r.fault]
        /\ UNCHANGED <<users, now, bearer, revoked, reg, contentVars, sideVars>>

\* POST /auth/refresh while the database cannot be reached
RefreshTokenStoreDown(token) ==
    LET r == refresh_token_store_down(token, now)
    IN  /\ Quiet
        /\ resp' = [Response("refresh_token", r.status, r.detail)
                       EXCEPT !.token = token, !.fault = r.fault]
        /\ UNCHANGED <<users, now, bearer, revoked, reg, contentVars, sideVars>>

\* the user dependency while the database cannot be reached
GetCurrentUserStoreDown(security_scopes, token) ==
    LET r == get_current_user_store_down(security_scopes, token, now)
    IN  /\ Quiet
        /\ resp' = [Response("get_current_user", r.status, r.detail)
                       EXCEPT !.token = token, !.scopes = security_scopes,
                              !.fault = r.fault]
        /\ UNCHANGED <<users, now, bearer, revoked, reg, contentVars, sideVars>>

\* a request to a content endpoint and its response
ContentRequest(op, r, token, target, name) ==
    /\ Quiet
    /\ Commit(r.content)
    /\ resp' = [Response(op, r.status, r.detail)
                   EXCEPT !.token = token, !.target = target, !.name = name]
    /\ UNCHANGED <<users, now, bearer, revoked, reg, sideVars>>

\* POST /posts/
CreatePost(title, category_id, token) ==
    /\ next_id(posts) <= MaxId
    /\ ContentRequest("create_post",
                      create_post(title, category_id, token, users, Content, now),
                      token, category_id, title)

\* PATCH /posts/{post_id}
UpdatePost(post_id, title, category_id, token) ==
    ContentRequest("update_post",
                   update_post(post_id, title, category_id, token, users, Content, now),
                   token, post_id, title)

\* DELETE /posts/{post_id}
DeletePost(post_id, token) ==
    ContentRequest("delete_post", delete_post(post_id, token, users, Content, now),
                   token, post_id, "")

\* POST /comments/
CreateComment(text, post_id, token) ==
    /\ next_id(comments) <= MaxId
    /\ ContentRequest("create_comment",
                      create_comment(text, post_id, token, users, Content, now),
                      token, post_id, text)

\* PATCH /comments/{comment_id}
UpdateComment(comment_id, text, token) ==
    ContentRequest("update_comment",
                   update_comment(comment_id, text, token, users, Content, now),
                   token, comment_id, text)

\* DELETE /comments/{comment_id}
DeleteComment(comment_id, token) ==
    ContentRequest("delete_comment",
                   delete_comment(comment_id, token, users, Content, now),
                   token, comment_id, "")

\* POST /likes/posts/{post_id}
CreateLike(post_id, token) ==
    /\ next_id(likes) <= MaxId
    /\ ContentRequest("create_like", create_like(post_id, token, users, Content, now),
                      token, post_id, "")

\* DELETE /likes/posts/{post_id}
RemoveLike(post_id, token) ==
    ContentRequest("remove_like", remove_like(post_id, token, users, Content, now),
                   token, post_id, "")

\* POST /categories/
CreateCategory(name, token) ==
    /\ next_id(categories) <= MaxId
    /\ ContentRequest("create_category",
                      create_category(name, token, users, Content, now),
                      token, 0, name)

\* PATCH /categories/{category_id}
UpdateCategory(category_id, name, token) ==
    ContentRequest("update_category",
                   update_category(category_id, name, token, users, Content, now),
                   token, category_id, name)

\* DELETE /categories/{category_id}
DeleteCategory(category_id, token) ==
    ContentRequest("delete_category",
                   delete_category(category_id, token, users, Content, now),
                   token, category_id, "")

\* PATCH /users/me
UpdateCurrentUser(password, salt, token) ==
    LET r == update_current_user(password, salt, token, users, now)
    IN  /\ Quiet
        /\ users' = r.db
        /\ resp' = [Response("update_current_user", r.status, r.detail)
                       EXCEPT !.token = token, !.password = password]
        /\ UNCHANGED <<now, bearer, revoked, reg, contentVars, sideVars>>

\* the client has read the response
Read ==
    /\ ~Quiet
    /\ resp' = NoResponse
    /\ UNCHANGED <<users, now, bearer, revoked, reg, contentVars, sideVars>>

\* the clock advances between two requests
Tick ==
    /\ Quiet
    /\ now < MaxTicks
    /\ now' = now + 1
    /\ UNCHANGED <<users, bearer, revoked, reg, resp, contentVars, sideVars>>

Next ==
    \/ \E u \in Usernames, p \in Passwords, ri \in RoleIds, s \in Salts :
          RegisterUser(u, p, ri, s)
    \/ \E u \in Usernames, p \in Passwords, sc \in RequestedScopes : Login(u, p, sc)
    \/ \E k \in Presentable : RefreshToken(k)
    \/ \E sc \in SecurityScopes, k \in Presentable : GetCurrentUser(sc, k)
    \/ \E k \in Presentable : DeleteCurrentUser(k)
    \/ \E i \in 1..MaxId : StoreDeleteUser(i)
    \/ Read
    \/ Tick

Spec == Init /\ [][Next]_vars

\* registration as two server processes run it against one database: a
\* request may be between its existence check and its commit while the other
\* process serves requests
NextRace ==
    \/ \E w \in Workers, u \in Usernames, p \in Passwords, ri \in RoleIds :
          RegisterBegin(w, u, p, ri)
    \/ \E w \in Workers, s \in Salts : RegisterCommit(w, s)
    \/ \E i \in 1..MaxId : StoreDeleteUser(i)
    \/ Read

SpecRace == Init /\ [][NextRace]_vars

\* the authentication core with a database that is at times unreachable
NextFault ==
    \/ Next
    \/ \E u \in Usernames, p \in Passwords, sc \in RequestedScopes :
          LoginStoreDown(u, p, sc)
    \/ \E k \in Presentable : RefreshTokenStoreDown(k)
    \/ \E sc \in SecurityScopes, k \in Presentable : GetCurrentUserStoreDown(sc, k)

SpecFault == Init /\ [][NextFault]_vars

\* the requests to the content routers
ContentNext ==
    \/ \E ti \in Titles, c \in 1..MaxId, k \in Presentable : CreatePost(ti, c, k)
    \/ \E i \in 1..MaxId, ti \in Titles \cup {""}, c \in 0..MaxId, k \in Presentable :
          UpdatePost(i, ti, c, k)
    \/ \E i \in 1..MaxId, k \in Presentable : DeletePost(i, k)
    \/ \E x \in Texts, i \in 1..MaxId, k \in Presentable : CreateComment(x, i, k)
    \/ \E i \in 1..MaxId, x \in Texts \cup {""}, k \in Presentable : UpdateComment(i, x, k)
    \/ \E i \in 1..MaxId, k \in Presentable : DeleteComment(i, k)
    \/ \E i \in 1..MaxId, k \in Presentable : CreateLike(i, k)
    \/ \E i \in 1..MaxId, k \in Presentable : RemoveLike(i, k)
    \/ \E n \in CategoryNames, k \in Presentable : CreateCategory(n, k)
    \/ \E i \in 1..MaxId, n \in CategoryNames \cup {""}, k \in Presentable :
          UpdateCategory(i, n, k)
    \/ \E i \in 1..MaxId, k \in Presentable : DeleteCategory(i, k)

\* every operation of the API, on a database that starts empty
NextApi ==
    \/ \E u \in Usernames, p \in Passwords, ri \in RoleIds, s \in Salts :
          RegisterUser(u, p, ri, s)
    \/ \E u \in Usernames, p \in Passwords, sc \in RequestedScopes : Login(u, p, sc)
    \/ \E k \in Presentable : RefreshToken(k)
    \/ \E p \in Passwords \cup {""}, s \in Salts, k \in Presentable :
          UpdateCurrentUser(p, s, k)
    \/ \E k \in Presentable : DeleteCurrentUser(k)
    \/ ContentNext
    \/ Read

SpecApi == Init /\ [][NextApi]_vars

\* the accounts of a database that holds content log in and use the content
\* routers, and the store deletes accounts
NextContent ==
    \/ \E u \in Usernames, p \in Passwords, sc \in RequestedScopes : Login(u, p, sc)
    \/ \E p \in Passwords \cup {""}, s \in Salts, k \in Presentable :
          UpdateCurrentUser(p, s, k)
    \/ \E k \in Presentable : DeleteCurrentUser(k)
    \/ ContentNext
    \/ \E i \in 1..MaxId : StoreDeleteUser(i)
    \/ Read

SpecContent == InitContent /\ [][NextContent]_vars

----------------------------------------------------------------------------
(* Vocabulary of the claims. *)

\* signed by the server: only create_access_token holds SECRET_KEY
Genuine(token) == token.kind = "jwt" /\ token.sig = HS256(SECRET_KEY, token.claims)

HasRefreshMarker(token) == "refresh" \in token.claims.keys /\ token.claims.refresh

IdentityExists(token) == token.claims.id \in DOMAIN users

\* the rows registered under username with exactly this password
RegisteredWith(username, password) ==
    {i \in DOMAIN users :
        /\ users[i].username = username
        /\ \E s \in Salts : users[i].password = bcrypt_hash(password, s)}

----------------------------------------------------------------------------
(* C1. A token issued as a refresh token, presented as the bearer token to  *)
(* get_current_user, is answered 401, even while it is unexpired and its    *)
(* identity exists.                                                         *)
C1_RefreshTokenRejected ==
    (resp.op = "get_current_user" /\ Genuine(resp.token) /\ HasRefreshMarker(resp.token))
        => resp.status = 401

(* C2. refresh called with a genuine, unexpired token that lacks the        *)
(* refresh marker, or with a refresh token whose identity has been deleted, *)
(* is answered 401 and returns no token pair.                               *)
C2_RefreshAnswers401 ==
    (/\ resp.op = "refresh_token"
     /\ Genuine(resp.token)
     /\ now <= resp.token.claims.exp
     /\ (~HasRefreshMarker(resp.token) \/ ~IdentityExists(resp.token)))
        => (resp.status = 401 /\ resp.access = NoToken /\ resp.refresh = NoToken)

(* C3. Once the identity a token was issued to has been deleted, the token  *)
(* is answered 401 by get_current_user in every later state.                *)
C3_DeletedIdentityTokenRejected ==
    (resp.op = "get_current_user" /\ resp.token = bearer /\ revoked)
        => resp.status = 401

(* C4. Of two registrations racing on one username, the one that does not   *)
(* succeed is answered 400 "Username already taken" and nothing else, and   *)
(* the username has exactly one row.                                        *)
C4_RaceLoserSeesDuplicateUsername ==
    /\ \A u \in Usernames : Cardinality(by_username(users, u)) <= 1
    /\ (resp.op = "register_user" /\ resp.status # 201)
          => (resp.status = 400 /\ resp.detail = "Username already taken")

(* C5. Registering a username that is already registered is answered 400  *)
(* "Username already taken"; the table is unchanged, so the username still  *)
(* has exactly one row and that row keeps the first registration's hash.    *)
C5_DuplicateRegistrationRejected ==
    [][\A u \in Usernames, p \in Passwords, ri \in RoleIds, s \in Salts :
          (by_username(users, u) # {} /\ RegisterUser(u, p, ri, s))
              => /\ resp'.status = 400
                 /\ resp'.detail = "Username already taken"
                 /\ users' = users
                 /\ Cardinality(by_username(users', u)) = 1]_vars

\* a second registration under another password was refused and the row
\* still verifies the first password only
C5_Witness ==
    /\ resp.op = "register_user"
    /\ resp.status = 400
    /\ \E i \in by_username(users, resp.username) :
          ~bcrypt_verify(resp.password, users[i].password)

(* C6. login succeeds exactly when the username is registered with the      *)
(* presented password; it then returns an access and a refresh token bound  *)
(* to that identity's id, username and role, and otherwise is answered 401  *)
(* "Invalid credentials" without any token.                                 *)
C6_LoginIffRegisteredPassword ==
    resp.op = "login" =>
        LET rows == RegisteredWith(resp.username, resp.password)
        IN  IF rows # {}
            THEN /\ resp.status = 200
                 /\ \A i \in rows : \A k \in {resp.access, resp.refresh} :
                       /\ Genuine(k)
                       /\ k.claims.id = i
                       /\ k.claims.sub = users[i].username
                       /\ k.claims.role = users[i].role
                 /\ HasRefreshMarker(resp.refresh)
                 /\ ~HasRefreshMarker(resp.access)
            ELSE /\ resp.status = 401
                 /\ resp.detail = "Invalid credentials"
                 /\ resp.access = NoToken
                 /\ resp.refresh = NoToken

\* a login of a registered user has returned its token pair
C6_Witness ==
    /\ resp.op = "login"
    /\ resp.status = 200
    /\ RegisteredWith(resp.username, resp.password) # {}
    /\ resp.access.claims.sub = resp.username

\* the users table without the row of username
Unregister(db, username) == [i \in DOMAIN db \ by_username(db, username) |-> db[i]]

(* C7. A failed login is answered the same, field for field, whether the    *)
(* username is registered (wrong password) or not: the response to a failed *)
(* login equals the response the same request gets with that username's row *)
(* removed from the table.                                                  *)
C7_LoginFailureIndistinguishable ==
    \A u \in Usernames, p \in Passwords, sc \in RequestedScopes :
        LET registered == login(u, p, sc, users, now)
            unregistered == login(u, p, sc, Unregister(users, u), now)
        IN  registered.status # 200 => registered = unregistered

\* a login with a wrong password has failed while another username is unknown
C7_Witness ==
    /\ resp.op = "login"
    /\ resp.status = 401
    /\ by_username(users, resp.username) # {}
    /\ \E u \in Usernames : by_username(users, u) = {}

(* C8. No leeway on expiry: a genuine token with expiry T whose identity    *)
(* exists is accepted only at server times t < T and answered 401 at every  *)
(* t >= T, t = T included.                                                  *)
C8_NoLeewayAtExpiry ==
    (/\ resp.op = "get_current_user"
     /\ Genuine(resp.token)
     /\ IdentityExists(resp.token)
     /\ resp.scopes = <<>>)
        => /\ resp.status = 200 <=> now < resp.token.claims.exp
           /\ now >= resp.token.claims.exp => resp.status = 401

(* C9. A token issued with the server's secret decodes to the claims it was *)
(* issued with (expiry = issue time + ttl) before the ttl has elapsed and   *)
(* fails with Expired once it has; decoded with another secret, signed with *)
(* another secret or altered, it never yields claims.                       *)
C9_DecodeRoundTrip ==
    /\ (resp.op = "login" /\ resp.status = 200)
          => /\ resp.access.claims.exp = now + AccessTtl
             /\ resp.refresh.claims.exp = now + RefreshTtl
    /\ bearer # NoToken
          => LET decoded == jwt_decode(bearer, SECRET_KEY, now)
             IN  /\ now < bearer.claims.exp
                       => (decoded.ok /\ decoded.claims = bearer.claims)
                 /\ now >= bearer.claims.exp
                       => (~decoded.ok /\ decoded.err = "Expired")
                 /\ ~jwt_decode(bearer, OtherKey, now).ok
                 /\ ~jwt_decode(Resigned(bearer), SECRET_KEY, now).ok
                 /\ ~jwt_decode(Altered(bearer), SECRET_KEY, now).ok

TokenScopes(token) ==
    IF "scopes" \in token.claims.keys THEN Range(token.claims.scopes) ELSE {}

(* C10. get_current_user succeeds only if every scope the endpoint requires *)
(* is in the token's scope list; a token that decodes and whose identity    *)
(* exists but lacks a required scope is answered 403; with no required      *)
(* scope such a token is accepted whatever its scopes.                      *)
C10_ScopeCheck ==
    resp.op = "get_current_user" =>
        LET decodes == jwt_decode(resp.token, SECRET_KEY, now).ok
            granted == \A i \in DOMAIN resp.scopes :
                          resp.scopes[i] \in TokenScopes(resp.token)
        IN  /\ resp.status = 200 => granted
            /\ (decodes /\ IdentityExists(resp.token) /\ ~granted) => resp.status = 403
            /\ (decodes /\ IdentityExists(resp.token) /\ resp.scopes = <<>>)
                  => resp.status = 200

\* a token holding one of the two required scopes was answered 403
C10_Witness ==
    /\ resp.op = "get_current_user"
    /\ resp.status = 403
    /\ TokenScopes(resp.token) # {}
    /\ IdentityExists(resp.token)

----------------------------------------------------------------------------
(* Vocabulary of the claims about the content routers. *)

\* the identity a token resolves to (status 200 and the user's id), or the
\* refusal
Caller(token) == get_current_user(<<>>, token, users, now)

CallerIsAdmin(token) == users[Caller(token).user].role = "ADMIN"

\* the token is an access token that resolves to an identity
Authenticated(token) == Caller(token).status = 200 /\ ~HasRefreshMarker(token)

(* C11. Update and delete of a post and delete of a comment, asked by an    *)
(* authenticated caller of an existing resource: allowed when the caller    *)
(* owns the resource, whatever the caller's role; allowed when the caller   *)
(* is another user with role ADMIN; answered 403 with the content tables    *)
(* unchanged when the caller is neither.                                    *)
C11_OwnerOrAdminAllowed ==
    [][\A i \in 1..MaxId, k \in Presentable :
          Authenticated(k) =>
             /\ (i \in DOMAIN posts /\ DeletePost(i, k))
                   => IF posts[i].user_id = Caller(k).user \/ CallerIsAdmin(k)
                      THEN resp'.status = 204 /\ i \notin DOMAIN posts'
                      ELSE resp'.status = 403 /\ UNCHANGED contentVars
             /\ (i \in DOMAIN posts /\ \E c \in 0..MaxId : UpdatePost(i, "", c, k))
                   => IF posts[i].user_id = Caller(k).user \/ CallerIsAdmin(k)
                      THEN resp'.status \in {200, 404}
                      ELSE resp'.status = 403 /\ UNCHANGED contentVars
             /\ (i \in DOMAIN comments /\ DeleteComment(i, k))
                   => IF comments[i].user_id = Caller(k).user \/ CallerIsAdmin(k)
                      THEN resp'.status = 204 /\ i \notin DOMAIN comments'
                      ELSE resp'.status = 403 /\ UNCHANGED contentVars]_vars

CategoryOps == {"create_category", "update_category", "delete_category"}

(* C13. create_category, update_category and delete_category asked by an    *)
(* authenticated caller whose role is not ADMIN are answered 403 and leave  *)
(* the categories and the posts unchanged; a step that changes the set of   *)
(* categories is a category request of an ADMIN caller.                     *)
C13_CategoriesAdminOnly ==
    [][/\ \A i \in 1..MaxId, n \in CategoryNames \cup {""}, k \in Presentable :
            (/\ Authenticated(k)
             /\ ~CallerIsAdmin(k)
             /\ \/ n # "" /\ CreateCategory(n, k)
                \/ UpdateCategory(i, n, k)
                \/ DeleteCategory(i, k))
                => /\ resp'.status = 403
                   /\ categories' = categories
                   /\ posts' = posts
       /\ categories' # categories
            => /\ resp'.op \in CategoryOps
               /\ Authenticated(resp'.token)
               /\ CallerIsAdmin(resp'.token)]_vars

(* C14. In every state the API operations reach from an empty database,     *)
(* every identity has role USER: a registration stores USER whatever        *)
(* role_id the request carries, and no operation changes a stored role.     *)
C14_EveryIdentityIsUser ==
    \A i \in DOMAIN users : users[i].role = "USER"

\* a registration that asked for role_id 1 was stored with role USER
C14_Witness ==
    /\ resp.op = "register_user"
    /\ resp.status = 201
    /\ resp.role_id = 1
    /\ resp.user \in DOMAIN users
    /\ users[resp.user].role = "USER"

\* every foreign key points at a row that exists
ReferentialIntegrity ==
    /\ \A i \in DOMAIN posts :
          posts[i].user_id \in DOMAIN users /\ posts[i].category_id \in DOMAIN categories
    /\ \A i \in DOMAIN comments :
          comments[i].user_id \in DOMAIN users /\ comments[i].post_id \in DOMAIN posts
    /\ \A i \in DOMAIN likes :
          likes[i].user_id \in DOMAIN users /\ likes[i].post_id \in DOMAIN posts
    /\ \A i \in DOMAIN views :
          views[i].user_id \in DOMAIN users

\* the rows of the identity: its posts, comments, likes and views, and the
\* comments and likes on its posts
RowsOf(user_id) ==
    LET mine == referencing(posts, "user_id", {user_id})
    IN  [posts |-> mine,
         comments |-> referencing(comments, "user_id", {user_id})
                         \cup referencing(comments, "post_id", mine),
         likes |-> referencing(likes, "user_id", {user_id})
                      \cup referencing(likes, "post_id", mine),
         views |-> referencing(views, "user_id", {user_id})]

ProtectedOps ==
    {"create_post", "update_post", "delete_post",
     "create_comment", "update_comment", "delete_comment",
     "create_like", "remove_like",
     "update_current_user", "delete_current_user"}

(* C16. A request without a bearer token to a protected endpoint (create,   *)
(* update, delete of a post or a comment, create or remove of a like,       *)
(* /users/me) is answered 401 and leaves the users, posts, comments and     *)
(* likes as they were.                                                      *)
C16_NoTokenUnauthenticated ==
    [][(resp' # resp /\ resp'.op \in ProtectedOps /\ resp'.token = NoToken)
          => /\ resp'.status = 401
             /\ users' = users
             /\ posts' = posts
             /\ comments' = comments
             /\ likes' = likes]_vars

\* a DELETE of an existing post without a token was answered 401
C16_Witness ==
    /\ resp.op = "delete_post"
    /\ resp.token = NoToken
    /\ resp.status = 401
    /\ resp.target \in DOMAIN posts

(* C17. A request to login, refresh or the user dependency that runs into   *)
(* an internal fault (the database cannot be reached) is answered with the  *)
(* generic server fault, 500: never with 400, 401 or 403, and never as if   *)
(* nothing had happened.                                                    *)
C17_FaultIsServerFault ==
    (resp.op \in {"login", "refresh_token", "get_current_user"} /\ resp.fault)
        => resp.status = 500

(* C18. Rotation without revocation: a refresh with a genuine refresh      *)
(* token that has not expired and whose identity exists succeeds, in every  *)
(* state, a state after earlier refreshes with the same token included; a   *)
(* successful refresh returns an access and a refresh token issued at that  *)
(* moment for the presented token's identity.                               *)
C18_RefreshWithoutRevocation ==
    /\ (/\ Genuine(bearer)
        /\ HasRefreshMarker(bearer)
        /\ now < bearer.claims.exp
        /\ IdentityExists(bearer))
          => refresh_token(bearer, users, now).status = 200
    /\ (resp.op = "refresh_token" /\ resp.status = 200)
          => /\ \A k \in {resp.access, resp.refresh} :
                   /\ Genuine(k)
                   /\ k.claims.id = resp.token.claims.id
                   /\ k.claims.sub = resp.token.claims.sub
                   /\ k.claims.role = resp.token.claims.role
             /\ resp.access.claims.exp = now + AccessTtl
             /\ resp.refresh.claims.exp = now + RefreshTtl
             /\ HasRefreshMarker(resp.refresh)
             /\ ~HasRefreshMarker(resp.access)

\* a refresh has succeeded, the client holds the refresh token it presented,
\* a second later than that token was issued, and a newer one was returned
C18_Witness ==
    /\ resp.op = "refresh_token"
    /\ resp.status = 200
    /\ resp.token = bearer
    /\ resp.refresh # bearer
    /\ now < bearer.claims.exp

(* C19. After register and login, POST /auth/refresh with the access token  *)
(* that login returned as the bearer token is answered 200 with a new       *)
(* access token and a new refresh token.                                    *)
C19_RefreshWithAccessToken ==
    (/\ resp.op = "refresh_token"
     /\ Genuine(resp.token)
     /\ "scopes" \in resp.token.claims.keys
     /\ ~HasRefreshMarker(resp.token)
     /\ now < resp.token.claims.exp
     /\ IdentityExists(resp.token))
        => /\ resp.status = 200
           /\ Genuine(resp.access)
           /\ Genuine(resp.refresh)

(* C20. A user who registered through /auth/register and logged in sends    *)
(* POST /categories/ with a name no category has: the answer is 201 and a   *)
(* category with that name exists afterwards.                               *)
C20_RegisteredUserCreatesCategory ==
    [][\A n \in CategoryNames, k \in Presentable :
          (/\ Authenticated(k)
           /\ referencing(categories, "name", {n}) = {}
           /\ CreateCategory(n, k))
              => /\ resp'.status = 201
                 /\ referencing(categories', "name", {n}) # {}]_vars

\* no (user, post) pair has two likes
OneLikePerPair ==
    \A i \in DOMAIN likes, j \in DOMAIN likes :
        (likes[i].user_id = likes[j].user_id /\ likes[i].post_id = likes[j].post_id)
            => i = j

(* C21. Under sequential requests: a like of a post the caller has already  *)
(* liked is answered 400 and adds no row; no (user, post) pair ever has two *)
(* likes; remove_like of a liked post removes the like, and remove_like of  *)
(* a post the caller has not liked is answered 404 and changes nothing.     *)
C21_LikeOncePerUserAndPost ==
    [][/\ OneLikePerPair'
       /\ \A i \in 1..MaxId, k \in Presentable :
             Authenticated(k) =>
                LET mine == likes_of(Content, i, Caller(k).user)
                IN  /\ (i \in DOMAIN posts /\ mine # {} /\ CreateLike(i, k))
                          => resp'.status = 400 /\ likes' = likes
                    /\ (mine # {} /\ RemoveLike(i, k))
                          => /\ resp'.status = 204
                             /\ \A l \in DOMAIN likes' :
                                   ~(likes'[l].post_id = i
                                     /\ likes'[l].user_id = Caller(k).user)
                    /\ (mine = {} /\ RemoveLike(i, k))
                          => resp'.status = 404 /\ likes' = likes]_vars

(* C22. update_comment asked by an authenticated caller who is not the      *)
(* comment's author, a caller with role ADMIN included, is answered 403 and *)
(* leaves the comment's content unchanged.                                  *)
C22_UpdateCommentAuthorOnly ==
    [][\A i \in 1..MaxId, x \in Texts \cup {""}, k \in Presentable :
          (/\ Authenticated(k)
           /\ i \in DOMAIN comments
           /\ comments[i].user_id # Caller(k).user
           /\ UpdateComment(i, x, k))
              => resp'.status = 403 /\ comments' = comments]_vars

----------------------------------------------------------------------------
(* The rate limiter (main.py, RateLimitMiddleware). *)

\* app.state.ip_requests.get(client_ip, [])
ip_requests_get(table, client_ip) ==
    IF client_ip \in DOMAIN table THEN table[client_ip] ELSE <<>>

\* [t for t in request_count if current_time - t < 60]
within_window(request_count, current_time) ==
    SelectSeq(request_count, LAMBDA t : current_time - t < WindowSeconds)

\* RateLimitMiddleware.dispatch. The middleware is registered only when
\* ENVIRONMENT is not "development", and passes every request on when it is.
\* Its HTTPException is raised in a BaseHTTPMiddleware, outside the exception
\* handlers of the application (they wrap the router, inside every
\* middleware): the server's error handler answers it with 500.
dispatch(client_ip, current_time, environment, table) ==
    IF environment = "development"
    THEN [status |-> 200, detail |-> "", ip_requests |-> table]
    ELSE LET request_count == within_window(ip_requests_get(table, client_ip),
                                            current_time)
         IN  IF Len(request_count) >= RATE_LIMIT
             THEN [status |-> 500, detail |-> "Internal Server Error",
                   ip_requests |-> table]
             ELSE [status |-> 200, detail |-> "",
                   ip_requests |->
                       [ip \in DOMAIN table \cup {client_ip} |->
                           IF ip = client_ip
                           THEN Append(request_count, current_time)
                           ELSE table[ip]]]

\* the server starts with either setting and an empty database
InitRate ==
    /\ users = <<>>
    /\ now = 0
    /\ bearer = NoToken
    /\ revoked = FALSE
    /\ reg = [w \in Workers |-> Idle]
    /\ resp = NoResponse
    /\ categories = <<>>
    /\ posts = <<>>
    /\ comments = <<>>
    /\ likes = <<>>
    /\ views = <<>>
    /\ ENVIRONMENT \in Environments
    /\ ip_requests = [ip \in {} |-> <<>>]
    /\ admitted = [ip \in ClientIps |-> <<>>]
    /\ like_req = [w \in Workers |-> NoLikeRequest]

\* GET /health from client_ip, through the middleware
Dispatch(client_ip) ==
    /\ Quiet
    /\ Len(admitted[client_ip]) < MaxRequests
    /\ LET r == dispatch(client_ip, now, ENVIRONMENT, ip_requests)
       IN  /\ resp' = [Response("dispatch", r.status, r.detail)
                          EXCEPT !.name = client_ip]
           /\ ip_requests' = r.ip_requests
           /\ admitted' = IF r.status = 200
                          THEN [admitted EXCEPT ![client_ip] = Append(@, now)]
                          ELSE admitted
    /\ UNCHANGED <<users, now, bearer, revoked, reg, contentVars,
                   ENVIRONMENT, like_req>>

NextRate ==
    \/ \E client_ip \in ClientIps : Dispatch(client_ip)
    \/ Read
    \/ Tick

SpecRate == InitRate /\ [][NextRate]_vars

\* how many requests of client_ip were let through in the window ending now
AdmittedInWindow(client_ip) ==
    Len(within_window(admitted[client_ip], now))

(* C23. A request from an ip with fewer than RATE_LIMIT admitted requests   *)
(* in the preceding 60 seconds is admitted; a request from an ip that has   *)
(* RATE_LIMIT of them is rejected with 429 and is not counted; a request    *)
(* changes nothing for another ip.                                          *)
C23_RateLimitPerIp ==
    [][\A client_ip \in ClientIps :
          Dispatch(client_ip) =>
            /\ AdmittedInWindow(client_ip) < RATE_LIMIT
                  => /\ resp'.status = 200
                     /\ admitted'[client_ip] = Append(admitted[client_ip], now)
            /\ AdmittedInWindow(client_ip) >= RATE_LIMIT
                  => /\ resp'.status = 429
                     /\ admitted' = admitted
                     /\ ip_requests' = ip_requests
            /\ \A other \in ClientIps \ {client_ip} :
                  /\ admitted'[other] = admitted[other]
                  /\ ip_requests_get(ip_requests', other)
                        = ip_requests_get(ip_requests, other)]_vars

----------------------------------------------------------------------------
\* the token carries the server's signature and has not expired
DecodesValidly(token) == Genuine(token) /\ now <= token.claims.exp

\* the token lacks one of the scopes the endpoint requires
LacksScope(token, security_scopes) ==
    \E i \in DOMAIN security_scopes : security_scopes[i] \notin TokenScopes(token)

(* C24. get_current_user answers 401, never 403, for a token that does not  *)
(* decode or whose identity no longer exists, also when the token lacks a   *)
(* required scope; it answers 403 only for a token that decodes validly and *)
(* whose identity exists.                                                   *)
C24_UnauthenticatedBeforeForbidden ==
    resp.op = "get_current_user" =>
        /\ (~DecodesValidly(resp.token) \/ ~IdentityExists(resp.token))
              => resp.status = 401
        /\ resp.status = 403
              => DecodesValidly(resp.token) /\ IdentityExists(resp.token)

\* a token of a deleted identity that also lacks a required scope was
\* answered 401
C24_Witness ==
    /\ resp.op = "get_current_user"
    /\ resp.status = 401
    /\ DecodesValidly(resp.token)
    /\ ~IdentityExists(resp.token)
    /\ LacksScope(resp.token, resp.scopes)

(* C25. get_current_user never returns an identity whose username differs   *)
(* from the subject of the token it was given, whatever registrations,      *)
(* logins and deletions came before.                                        *)
C25_TokenResolvesToItsIdentity ==
    (resp.op = "get_current_user" /\ resp.status = 200)
        => users[resp.user].username = resp.token.claims.sub

\* the token is an access token as refresh_token issues it: signed by the
\* server, with neither a scope list nor a refresh marker
IssuedByRefresh(token) == Genuine(token) /\ token.claims.keys = {}

(* C26. The access token refresh_token issues carries no scopes, whatever   *)
(* scopes the login asked for; get_current_user never accepts it where a    *)
(* scope is required, and answers 403 while it decodes and its identity     *)
(* exists.                                                                  *)
C26_RefreshedTokenHasNoScopes ==
    /\ (resp.op = "refresh_token" /\ resp.status = 200)
          => IssuedByRefresh(resp.access) /\ TokenScopes(resp.access) = {}
    /\ (resp.op = "get_current_user" /\ IssuedByRefresh(resp.token)
                                     /\ resp.scopes # <<>>)
          => /\ resp.status # 200
             /\ (DecodesValidly(resp.token) /\ IdentityExists(resp.token))
                   => resp.status = 403

\* an unexpired refreshed access token of an existing identity was answered
\* 403 where scopes are required
C26_Witness ==
    /\ resp.op = "get_current_user"
    /\ IssuedByRefresh(resp.token)
    /\ DecodesValidly(resp.token)
    /\ IdentityExists(resp.token)
    /\ resp.scopes # <<>>
    /\ resp.status = 403

----------------------------------------------------------------------------
(* Login and the scope check over a database with users of both roles. *)

NextScopes ==
    \/ \E u \in Usernames, p \in Passwords, sc \in RequestedScopes : Login(u, p, sc)
    \/ \E sc \in SecurityScopes, k \in Presentable : GetCurrentUser(sc, k)
    \/ Read
    \/ Tick

SpecScopes == InitContent /\ [][NextScopes]_vars

(* C27. The scope list of the access token login issues is exactly the list *)
(* the login form asked for, whatever the identity's role; such a token     *)
(* holding "admin" passes the scope check for "admin", also for an identity *)
(* with role USER.                                                          *)
C27_LoginGrantsRequestedScopes ==
    /\ (resp.op = "login" /\ resp.status = 200)
          => /\ "scopes" \in resp.access.claims.keys
             /\ resp.access.claims.scopes = resp.scopes
    /\ (/\ resp.op = "get_current_user"
        /\ resp.scopes = <<"user", "admin">>
        /\ {"user", "admin"} \subseteq TokenScopes(resp.token)
        /\ DecodesValidly(resp.token)
        /\ IdentityExists(resp.token))
          => resp.status = 200

\* the token of an identity with role USER passed the check for "admin"
C27_Witness ==
    /\ resp.op = "get_current_user"
    /\ resp.scopes = <<"user", "admin">>
    /\ resp.status = 200
    /\ users[resp.user].role = "USER"
    /\ resp.token.claims.role = "USER"

(* C28. After update_current_user has set a new password for an             *)
(* authenticated caller, login with the new password succeeds, login with   *)
(* another password fails with 401, and every token that was accepted       *)
(* before the change is still accepted.                                     *)
C28_PasswordChange ==
    [][\A p \in Passwords, s \in Salts, k \in Presentable :
          (Authenticated(k) /\ UpdateCurrentUser(p, s, k)) =>
             LET name == users[Caller(k).user].username
             IN  /\ resp'.status = 200
                 /\ login(name, p, <<"user">>, users', now).status = 200
                 /\ \A q \in Passwords \ {p} :
                       login(name, q, <<"user">>, users', now).status = 401
                 /\ \A t \in Presentable :
                       Caller(t).status = 200
                          => get_current_user(<<>>, t, users', now).status = 200]_vars

----------------------------------------------------------------------------
(* create_like served by two server processes at once (like.py 21-70): a    *)
(* request is interleaved with the other's between its queries.             *)

\* worker w is between the queries of a create_like
InProgress(w) == like_req[w].pc \in {"check", "insert"}

\* create_like up to the post lookup (like.py lines 42-53)
like_begin(post_id, token, db, content, t) ==
    LET auth == get_current_user(<<>>, token, db, t)
    IN  IF auth.status # 200
        THEN [pc |-> "done", status |-> auth.status, user |-> 0]
        ELSE IF post_id \notin DOMAIN content.posts
        THEN [pc |-> "done", status |-> 404, user |-> auth.user]
        ELSE [pc |-> "check", status |-> 0, user |-> auth.user]

\* the next step of a create_like that found its post: the query for an
\* existing like (lines 55-64), then the insert and commit (lines 66-70)
like_step(req, db, content) ==
    IF req.pc = "check"
    THEN IF user_subscript_id(orm_user(db, req.user)) # "pass"
         THEN [pc |-> "done", status |-> 500, likes |-> content.likes]
         ELSE IF likes_of(content, req.post_id, req.user) # {}
         THEN [pc |-> "done", status |-> 400, likes |-> content.likes]
         ELSE [pc |-> "insert", status |-> 0, likes |-> content.likes]
    ELSE [pc |-> "done", status |-> 201,
          likes |-> insert_row(content.likes,
                               [user_id |-> req.user, post_id |-> req.post_id])]

\* POST /likes/posts/{post_id} arrives at worker w
LikeBegin(w, post_id, token) ==
    /\ like_req[w].pc = "idle"
    /\ LET r == like_begin(post_id, token, users, Content, now)
       IN  like_req' = [like_req EXCEPT ![w] =
               [pc |-> r.pc, post_id |-> post_id, user |-> r.user,
                status |-> r.status,
                overlapped |-> \E v \in Workers \ {w} :
                                  /\ InProgress(v)
                                  /\ like_req[v].post_id = post_id
                                  /\ like_req[v].user = r.user]]
    /\ UNCHANGED <<users, now, bearer, revoked, reg, resp, contentVars,
                   ENVIRONMENT, ip_requests, admitted>>

\* worker w runs the next query of its request
LikeStep(w) ==
    /\ InProgress(w)
    /\ LET r == like_step(like_req[w], users, Content)
       IN  /\ like_req' = [like_req EXCEPT ![w].pc = r.pc, ![w].status = r.status]
           /\ likes' = r.likes
    /\ UNCHANGED <<users, now, bearer, revoked, reg, resp, categories, posts,
                   comments, views, ENVIRONMENT, ip_requests, admitted>>

\* the client of worker w has read its response
LikeEnd(w) ==
    /\ like_req[w].pc = "done"
    /\ like_req' = [like_req EXCEPT ![w] = NoLikeRequest]
    /\ UNCHANGED <<users, now, bearer, revoked, reg, resp, contentVars,
                   ENVIRONMENT, ip_requests, admitted>>

NextLikeRace ==
    \/ \E u \in Usernames, p \in Passwords, sc \in RequestedScopes : Login(u, p, sc)
    \/ \E w \in Workers, i \in 1..MaxId, k \in Presentable : LikeBegin(w, i, k)
    \/ \E w \in Workers : LikeStep(w)
    \/ \E w \in Workers : LikeEnd(w)
    \/ Read

SpecLikeRace == InitContent /\ [][NextLikeRace]_vars

----------------------------------------------------------------------------
====
